---------------------------- MODULE Spec2Model ----------------------------
(***************************************************************************)
(* A model of the search workers of hash_bruteforcer.py: the charset       *)
(* search (BruteForceWorker), the dictionary search                        *)
(* (DictionaryBruteForceWorker) and the rainbow-table lookup               *)
(* (RainbowTableWorker), each run by its own thread while the GUI thread   *)
(* may call stop() at any moment, and of the command-line charset search   *)
(* bruteforce_cli.                                                         *)
(*                                                                         *)
(* Strings are sequences of one-character strings.  A file is a sequence   *)
(* of lines as Python's file iteration yields them.                        *)
(***************************************************************************)
EXTENDS Integers, Sequences, FiniteSets, TLC

(***************************************************************************)
(* Strings                                                                 *)
(***************************************************************************)

\* str.lower() on one character, for the letters the model uses.
LowerChar(c) ==
    CASE c = "A" -> "a" [] c = "B" -> "b" [] c = "C" -> "c"
      [] c = "D" -> "d" [] c = "E" -> "e" [] c = "F" -> "f"
      [] OTHER -> c

\* str.lower()
Lower(s) == [i \in 1..Len(s) |-> LowerChar(s[i])]

\* The characters str.strip() removes.
IsSpace(c) == c \in {" ", "\n", "\t", "\r"}

RECURSIVE LStrip(_)
LStrip(s) == IF s # <<>> /\ IsSpace(Head(s)) THEN LStrip(Tail(s)) ELSE s

RECURSIVE RStrip(_)
RStrip(s) ==
    IF s # <<>> /\ IsSpace(s[Len(s)]) THEN RStrip(SubSeq(s, 1, Len(s) - 1)) ELSE s

\* str.strip()
Strip(s) == RStrip(LStrip(s))

\* ':' in line
HasColon(s) == \E i \in 1..Len(s) : s[i] = ":"

\* The index of the last ':' (the split of rsplit).
LastColon(s) == CHOOSE i \in 1..Len(s) : s[i] = ":" /\ \A j \in (i + 1)..Len(s) : s[j] # ":"

\* The index of the first ':' of a string that has one.
FirstColon(s) == CHOOSE i \in 1..Len(s) : s[i] = ":" /\ \A j \in 1..(i - 1) : s[j] # ":"

\* line.split(':', 1) of a string that has a colon: <<before, after>>.
SplitColon(s) ==
    <<SubSeq(s, 1, FirstColon(s) - 1), SubSeq(s, FirstColon(s) + 1, Len(s))>>

\* b ** e on Python integers (0 ** 0 = 1).
RECURSIVE Pow(_, _)
Pow(b, e) == IF e = 0 THEN 1 ELSE b * Pow(b, e - 1)

\* str(n) of a non-negative integer.
DigitChar(d) == <<"0", "1", "2", "3", "4", "5", "6", "7", "8", "9">>[d + 1]

RECURSIVE IntStr(_)
IntStr(n) == IF n < 10 THEN <<DigitChar(n)>> ELSE IntStr(n \div 10) \o <<DigitChar(n % 10)>>

(***************************************************************************)
(* Python float arithmetic: int((tried / total) * 100).  A float is a      *)
(* record [l1, l2, l3, l4, e]: its 53-bit significand is                   *)
(*   M = l1 * 2^42 + l2 * 2^28 + l3 * 2^14 + l4,  2^10 <= l1 < 2^11,       *)
(* and its value M * 2^(e - 52).  Division and multiplication round to     *)
(* nearest, ties to even, as IEEE 754 doubles do.  The operands are        *)
(* integers below 2^20.                                                    *)
(***************************************************************************)
Limb == Pow(2, 14)

\* k with x * 2^k <= y < x * 2^(k+1), for 0 < x <= y.
RECURSIVE ShiftsBelow(_, _)
ShiftsBelow(x, y) == IF 2 * x <= y THEN 1 + ShiftsBelow(2 * x, y) ELSE 0

\* The least j with x * 2^j >= y, for x > 0.
RECURSIVE ShiftsUpTo(_, _)
ShiftsUpTo(x, y) == IF x >= y THEN 0 ELSE 1 + ShiftsUpTo(2 * x, y)

\* The significand plus one unit in the last place (when up), renormalised.
RoundUp(x, up) ==
    LET n4 == x.l4 + (IF up THEN 1 ELSE 0)
        n3 == x.l3 + n4 \div Limb
        n2 == x.l2 + n3 \div Limb
        n1 == x.l1 + n2 \div Limb
    IN  IF n1 = 2048
        THEN [l1 |-> 1024, l2 |-> 0, l3 |-> 0, l4 |-> 0, e |-> x.e + 1]
        ELSE [l1 |-> n1, l2 |-> n2 % Limb, l3 |-> n3 % Limb, l4 |-> n4 % Limb, e |-> x.e]

\* tried / total, for integers 0 < t, T.
FloatDiv(t, T) ==
    LET k   == IF t >= T THEN ShiftsBelow(T, t) ELSE 0
        j   == IF t >= T THEN 0 ELSE ShiftsUpTo(t, T)
        num == t * Pow(2, j)
        den == T * Pow(2, k)
        l1  == (num * 1024) \div den
        r1  == (num * 1024) % den
        c1  == (r1 * 128) \div den
        r2  == (r1 * 128) % den
        c2  == (r2 * 128) \div den
        r3  == (r2 * 128) % den
        c3  == (r3 * 128) \div den
        r4  == (r3 * 128) % den
        c4  == (r4 * 128) \div den
        r5  == (r4 * 128) % den
        c5  == (r5 * 128) \div den
        r6  == (r5 * 128) % den
        c6  == (r6 * 128) \div den
        r7  == (r6 * 128) % den
        x   == [l1 |-> l1, l2 |-> c1 * 128 + c2, l3 |-> c3 * 128 + c4,
                l4 |-> c5 * 128 + c6, e |-> k - j]
    IN  RoundUp(x, 2 * r7 > den \/ (2 * r7 = den /\ c6 % 2 = 1))

\* x * 100
FloatMul100(x) ==
    LET p4 == x.l4 * 100
        p3 == x.l3 * 100 + p4 \div Limb
        p2 == x.l2 * 100 + p3 \div Limb
        p1 == x.l1 * 100 + p2 \div Limb
        q4 == p4 % Limb
        q3 == p3 % Limb
        q2 == p2 % Limb
        s  == IF p1 < 131072 THEN 6 ELSE 7
        lo == Pow(2, s)
        hi == Limb \div lo
        y  == [l1 |-> p1 \div lo,
               l2 |-> q2 \div lo + (p1 % lo) * hi,
               l3 |-> q3 \div lo + (q2 % lo) * hi,
               l4 |-> q4 \div lo + (q3 % lo) * hi,
               e  |-> x.e + s]
        dropped == q4 % lo
        half    == lo \div 2
    IN  RoundUp(y, dropped > half \/ (dropped = half /\ y.l4 % 2 = 1))

\* int(x) of a float 0 <= x < 2^31.
FloatInt(x) ==
    LET sh == 52 - x.e
    IN  IF x.e < 0 THEN 0
        ELSE IF sh >= 42 THEN x.l1 \div Pow(2, sh - 42)
        ELSE IF sh >= 28 THEN x.l1 * Pow(2, 42 - sh) + x.l2 \div Pow(2, sh - 28)
        ELSE x.l1 * Pow(2, 42 - sh) + x.l2 * Pow(2, 28 - sh) + x.l3 \div Pow(2, sh - 14)

Min(a, b) == IF a <= b THEN a ELSE b

(***************************************************************************)
(* Digests.  hashlib's digests are modelled as injective functions to      *)
(* lowercase hex strings: a tag for the algorithm, then the two hex digits *)
(* of every character of the text.                                         *)
(***************************************************************************)
Chars == <<"a", "b", "d", "0", "1", "2", "3", "4", "5", "6", "7", "8", "9", ":", " ", "\n",
           "o", "p", "r", "s", "w">>

Codes ==
    << <<"6", "1">>, <<"6", "2">>, <<"6", "4">>, <<"3", "0">>, <<"3", "1">>, <<"3", "2">>,
       <<"3", "3">>, <<"3", "4">>, <<"3", "5">>, <<"3", "6">>, <<"3", "7">>, <<"3", "8">>,
       <<"3", "9">>, <<"3", "a">>, <<"2", "0">>, <<"0", "a">>,
       <<"6", "f">>, <<"7", "0">>, <<"7", "2">>, <<"7", "3">>, <<"7", "7">> >>

\* The two lowercase hex digits of a character's code.
CharHex(c) == Codes[CHOOSE i \in 1..Len(Chars) : Chars[i] = c]

RECURSIVE HexOf(_)
HexOf(text) == IF text = <<>> THEN <<>> ELSE CharHex(Head(text)) \o HexOf(Tail(text))

\* string.digits
Digits == <<"0", "1", "2", "3", "4", "5", "6", "7", "8", "9">>

\* hashlib.algorithms_available, as far as the model goes.
algorithms_available == {"md5", "sha1"}

\* hash_type.lower()
LowerName(h) ==
    CASE h = "MD5" -> "md5" [] h = "SHA1" -> "sha1" [] h = "CUSTOM" -> "custom"
      [] OTHER -> h

\* hashlib.<algo>(text.encode()).hexdigest()
HexDigest(algo, text) == <<(IF algo = "md5" THEN "d" ELSE "e")>> \o HexOf(text)

\* The custom functions a user may have loaded: custom_hash(text) returns
\* text[-1:] ("last"), text[1] ("second", IndexError on a shorter text), or
\* len(text) ("length", an int).  "probe" is a function that raises on every
\* text, which load_custom_hash_function refuses.
CustomFunctions == {"last", "second", "length"}

CustomCall(fn, text) ==
    CASE fn = "last" ->
           [raised |-> FALSE, isstr |-> TRUE,
            val |-> IF text = <<>> THEN <<>> ELSE <<text[Len(text)]>>]
      [] fn = "second" ->
           IF Len(text) < 2 THEN [raised |-> TRUE, isstr |-> TRUE, val |-> <<>>]
           ELSE [raised |-> FALSE, isstr |-> TRUE, val |-> <<text[2]>>]
      [] fn = "length" ->
           [raised |-> FALSE, isstr |-> FALSE, val |-> Len(text)]
      [] fn = "probe" ->
           [raised |-> TRUE, isstr |-> TRUE, val |-> <<>>]

\* get_hash with no fallback when the custom function raises: None.
get_hashNoFallback(text, hash_type_, custom) ==
    LET algo == LowerName(hash_type_)
    IN  IF algo = "custom" /\ custom # "None"
        THEN LET result == CustomCall(custom, text)
             IN  IF result.raised THEN <<>>
                 ELSE IF ~result.isstr THEN IntStr(result.val)
                 ELSE result.val
        ELSE IF algo \in algorithms_available THEN HexDigest(algo, text)
        ELSE HexDigest("md5", text)

\* get_hash with the MD5 fallback for a result that is not a string.
get_hashNonStrFallback(text, hash_type_, custom) ==
    LET algo == LowerName(hash_type_)
    IN  IF algo = "custom" /\ custom # "None"
        THEN LET result == CustomCall(custom, text)
             IN  IF result.raised \/ ~result.isstr THEN HexDigest("md5", text)
                 ELSE result.val
        ELSE IF algo \in algorithms_available THEN HexDigest(algo, text)
        ELSE HexDigest("md5", text)

\* get_hash(text, hash_type) with the global custom_hash_function being custom.
get_hash(text, hash_type_, custom) ==
    LET algo == LowerName(hash_type_)
    IN  IF algo = "custom" /\ custom # "None"
        THEN LET result == CustomCall(custom, text)
             IN  IF result.raised THEN HexDigest("md5", text)
                 ELSE IF ~result.isstr THEN IntStr(result.val)
                 ELSE result.val
        ELSE IF algo \in algorithms_available THEN HexDigest(algo, text)
        ELSE HexDigest("md5", text)

\* The function get_hash applies: the loaded custom function under CUSTOM,
\* the named algorithm of hashlib, MD5 for any other name.
Applies(hash_type_, custom) ==
    LET algo == LowerName(hash_type_)
    IN  IF algo = "custom" /\ custom # "None" THEN custom
        ELSE IF algo \in algorithms_available THEN algo
        ELSE "md5"

(***************************************************************************)
(* itertools.product(char_set, repeat=length): an odometer over the        *)
(* positions of char_set.  An iterator is [idx, fresh]: idx the positions  *)
(* of the tuple last yielded (or to yield first, when fresh).              *)
(***************************************************************************)
ProductIter(len) == [idx |-> [i \in 1..len |-> 1], fresh |-> TRUE]

\* Pivot with the first character as the least significant digit.
PivotLeftmost(idx, n) ==
    IF \E i \in 1..Len(idx) : idx[i] < n
    THEN CHOOSE i \in 1..Len(idx) : idx[i] < n /\ \A j \in 1..(i - 1) : idx[j] = n
    ELSE 0

\* The rightmost position of idx that can still advance, 0 if none.
Pivot(idx, n) ==
    IF \E i \in 1..Len(idx) : idx[i] < n
    THEN CHOOSE i \in 1..Len(idx) : idx[i] < n /\ \A j \in (i + 1)..Len(idx) : idx[j] = n
    ELSE 0

\* next(iterator): [done, idx]; done when StopIteration is raised.
ProductNext(it_, n) ==
    IF it_.fresh
    THEN [done |-> (n = 0 /\ Len(it_.idx) > 0), idx |-> it_.idx]
    ELSE LET p == Pivot(it_.idx, n)
         IN  IF p = 0 THEN [done |-> TRUE, idx |-> it_.idx]
             ELSE [done |-> FALSE,
                   idx |-> [i \in 1..Len(it_.idx) |->
                              IF i < p THEN it_.idx[i]
                              ELSE IF i = p THEN it_.idx[i] + 1 ELSE 1]]

\* ''.join(attempt)
Join(idx, cs) == [i \in 1..Len(idx) |-> cs[idx[i]]]

\* The sum over range(lo, hi), which leaves the longest length out.
RECURSIVE SumPowExclusive(_, _, _)
SumPowExclusive(n, lo, hi) ==
    IF lo >= hi THEN 0 ELSE Pow(n, lo) + SumPowExclusive(n, lo + 1, hi)

\* sum of len(char_set) ** length for length in range(lo, hi + 1)
RECURSIVE SumPow(_, _, _)
SumPow(n, lo, hi) == IF lo > hi THEN 0 ELSE Pow(n, lo) + SumPow(n, lo + 1, hi)

(***************************************************************************)
(* Files.  The state holds the name of a file; FileLines gives the lines   *)
(* that iterating over it yields.  "unreadable" is a path open() fails on. *)
(***************************************************************************)
NL == "\n"

\* Word lists.
DictPw == << <<"a", NL>>, <<NL>>, <<" ", "b", " ", NL>> >>
DictAb == << <<"a", "b", NL>>, <<"b">> >>
DictOne == << <<"b", NL>> >>

\* Rainbow tables.
TableMix == << <<"a", NL>>, <<NL>>, <<"D", "6", "2", ":", "a", ":", "b", NL>>,
               <<"d", "6", "1", ":", "a", NL>> >>
TableOne == << <<"d", "6", "1", ":", "a", NL>> >>

\* The word list "password\n\n123456\n" and the table of the one entry
\* "5f4dcc3b5aa765d61d8327deb882cf99:password\n".
DictPassword == << <<"p", "a", "s", "s", "w", "o", "r", "d", NL>>,
                   <<NL>>,
                   <<"1", "2", "3", "4", "5", "6", NL>> >>
Md5Password == <<"5", "f", "4", "d", "c", "c", "3", "b", "5", "a", "a", "7", "6", "5", "d", "6", "1", "d", "8", "3", "2", "7", "d", "e", "b", "8", "8", "2", "c", "f", "9", "9">>
TablePassword == << Md5Password \o <<":", "p", "a", "s", "s", "w", "o", "r", "d", NL>> >>

\* A long file that is both a word list and a table: BigLines entries
\* "d61:a", the entry number BigHit being "d62:b".
BigLines == 1500
BigHit == 1200
BigFile == [i \in 1..BigLines |->
              IF i = BigHit THEN <<"d", "6", "2", ":", "b", NL>>
              ELSE <<"d", "6", "1", ":", "a", NL>>]

\* A word list of ListLines lines "a".
ListLines == 50000
LongList == [i \in 1..ListLines |-> <<"a", NL>>]

FileLines(name) ==
    CASE name = "empty"    -> <<>>
      [] name = "LongList" -> LongList
      [] name = "DictPw"   -> DictPw
      [] name = "DictAb"   -> DictAb
      [] name = "DictOne"  -> DictOne
      [] name = "TableMix" -> TableMix
      [] name = "TableOne" -> TableOne
      [] name = "BigFile"  -> BigFile
      [] name = "DictPassword" -> DictPassword
      [] name = "TablePassword" -> TablePassword

Readable(name) == name # "unreadable"

(***************************************************************************)
(* State                                                                   *)
(***************************************************************************)
VARIABLES
    kind,                 \* the worker's class: "brute", "dict" or "rainbow";
                          \* "brute_cli" for a run of bruteforce_cli
    hash_type,            \* self.hash_type / args.type
    target_hash,          \* self.target_hash / args.hash
    char_set,             \* self.char_set / args.charset
    charset_preset,       \* args.charset_preset
    min_length,           \* self.min_length / args.min_length
    max_length,           \* self.max_length / args.max_length
    running,              \* self.running
    custom_hash_function, \* the global custom_hash_function ("None" or a function)
    disk,                 \* the file now at self.dictionary_path / self.rainbow_path
    pc,                   \* where run() is
    total,                \* total_combinations / total_lines
    tried_combinations,   \* tried_combinations
    found,                \* found
    length,               \* the outer loop's length
    it,                   \* the itertools.product iterator of the inner loop
    text,                 \* the candidate (or stripped table line) of this iteration
    f,                    \* the file opened for the comparison pass
    pos,                  \* the lines of f read so far
    events,               \* the signals emitted, in order
    log,                  \* history: the candidates tested, with their digests
    tests,                \* history: digest computations / table-line comparisons made
    applied,              \* history: the digest functions get_hash has applied
    stop_at,              \* history: where the run was when stop() first arrived
    observed,             \* history: a loop check has seen running == False
    loop_exit,            \* history: how the candidate pass was left
    changed,              \* history: the file was replaced between the passes
    loads,                \* history: the calls of load_custom_hash_function made
    load_log,             \* history: the code of each call and the flag it returned
    start_enabled,        \* self.start_button.isEnabled()
    stop_enabled,         \* self.stop_button.isEnabled()
    handled,              \* the GUI has run finished_task for self.worker
    active,               \* history: workers started whose finished_task is not handled
    clicks,               \* history: the handlers of the GUI run so far
    last_click,           \* history: what the last of them did
    probe                 \* whether log is kept

gui == <<start_enabled, stop_enabled, handled, active, clicks, last_click>>
config == <<kind, hash_type, target_hash, charset_preset, min_length, max_length,
            custom_hash_function, loads, load_log, probe, gui>>
locals == <<total, tried_combinations, found, length, it, text, f, pos, char_set>>
history == <<log, tests, applied, observed, loop_exit>>
vars == <<config, running, disk, pc, locals, events, history, stop_at, changed>>

NoStop == [tried |-> -1, tests |-> -1, remaining |-> -1]

\* The signals.
Progress(value, txt) == [sig |-> "update_progress", value |-> value, text |-> txt, hashed |-> <<>>]
Match(txt, hashed) == [sig |-> "found_match", value |-> 0, text |-> txt, hashed |-> hashed]
Finished == [sig |-> "finished_task", value |-> 0, text |-> <<>>, hashed |-> <<>>]

\* What bruteforce_cli prints.
Printed(what, value, txt, hashed) ==
    [sig |-> what, value |-> value, text |-> txt, hashed |-> hashed]

IsWorker == kind \in {"brute", "dict", "rainbow"}

(***************************************************************************)
(* The pieces the three run() methods share                                *)
(***************************************************************************)
\* The reporting periods of the charset search and of the file searches.
BrutePeriod == 10000
LinePeriod == 1000

\* tried_combinations % period == 0 or tried_combinations == total
Reports(tried, tot, period) == tried % period = 0 \/ tried = tot

\* int((tried / total) * 100): the quotient and the product are each a value,
\* computed once and rounded once.
Scaled(tried, tot) ==
    CHOOSE v \in {FloatInt(y) : y \in {FloatMul100(x) : x \in {FloatDiv(tried, tot)}}} : TRUE

\* The percent with no cap.
PercentUncapped(tried, tot) == Scaled(tried, tot)

\* min(100, int((tried_combinations / total) * 100)), for total # 0
Percent(tried, tot) == CHOOSE p \in {Min(100, v) : v \in {Scaled(tried, tot)}} : TRUE

\* if not self.running: break, at the head of the loop over the lengths
OuterObservesStop(run) == ~run

\* The loop over the candidates with no check of its own.
InnerNeverObservesStop(run) == FALSE

\* if not self.running: break, at the head of the loop over the candidates
InnerObservesStop(run) == ~run

\* The loop over the lines with no check of running.
LineNeverObservesStop(run) == FALSE

\* if not self.running: break, at the head of the loop over the lines
LineObservesStop(run) == ~run

\* if hashed in self.target_hash: a substring test in place of the equality.
IsMatchSubstring(hashed, target) ==
    \E i \in 0..(Len(target) - Len(hashed)) : SubSeq(target, i + 1, i + Len(hashed)) = hashed

\* if hashed == self.target_hash / if stored_hash == self.target_hash
IsMatch(hashed, target) == hashed = target

\* The loop over the lengths going on after a match.
BreaksOuterNever(fnd) == FALSE

\* if found: break, after the inner loop
BreaksOuter(fnd) == fnd

\* if not found: the final 100% forced also after a stop.
ForcesFinalStopped(fnd, run) == ~fnd

\* if not found and self.running
ForcesFinal(fnd, run) == ~fnd /\ run

\* A word list that hashes its blank lines too.
DictSkipsNothing(txt) == FALSE

\* if not text: continue
DictSkips(txt) == txt = <<>>

\* if not line: continue; if ':' not in line: continue
RainbowSkips(txt) == txt = <<>> \/ ~HasColon(txt)

\* The candidates that had not been begun when stop() arrived.
Remaining ==
    IF pc \in {"done", "raised"} THEN 0
    ELSE IF kind \in {"brute", "brute_cli"}
    THEN SumPow(Len(char_set), min_length, max_length) - tried_combinations
    ELSE IF pc \in {"created", "count", "open"}
    THEN (IF Readable(disk) THEN Len(FileLines(disk)) ELSE 0)
    ELSE Len(FileLines(f)) - pos

Logged(txt, hashed) == IF probe THEN Append(log, [text |-> txt, hashed |-> hashed]) ELSE log

(***************************************************************************)
(* QThread.start(): run() begins on the worker's own thread.               *)
(***************************************************************************)
Start ==
    /\ pc = "created"
    /\ pc' = "count"
    /\ UNCHANGED <<config, running, disk, locals, events, history, stop_at, changed>>

(***************************************************************************)
(* stop(), called from the GUI thread at any moment.                       *)
(***************************************************************************)
\* A stop() that flips the flag.
StopToggles(run) == ~run

\* self.running = False
StopClears(run) == FALSE

Stop ==
    /\ IsWorker
    /\ running' = StopClears(running)
    /\ stop_at' = IF stop_at = NoStop /\ running
                  THEN [tried |-> tried_combinations, tests |-> tests, remaining |-> Remaining]
                  ELSE stop_at
    /\ UNCHANGED <<config, disk, pc, locals, events, history, changed>>

(***************************************************************************)
(* BruteForceWorker.run                                                    *)
(***************************************************************************)
\* total_combinations, tried_combinations = 0, found = False
BruteCount ==
    /\ pc = "count" /\ kind = "brute"
    /\ total' = SumPow(Len(char_set), min_length, max_length)
    /\ tried_combinations' = 0
    /\ found' = FALSE
    /\ length' = min_length
    /\ pc' = "outer"
    /\ UNCHANGED <<config, char_set, running, disk, it, text, f, pos, events, history, stop_at, changed>>

\* for length in range(...): if not self.running: break
BruteOuter ==
    /\ pc = "outer" /\ kind = "brute"
    /\ IF length > max_length
       THEN /\ pc' = "final"
            /\ loop_exit' = IF observed THEN "stop" ELSE "exhausted"
            /\ UNCHANGED <<it, observed>>
       ELSE IF OuterObservesStop(running)
       THEN /\ pc' = "final"
            /\ loop_exit' = "stop"
            /\ observed' = TRUE
            /\ UNCHANGED it
       ELSE /\ pc' = "next"
            /\ it' = ProductIter(length)
            /\ UNCHANGED <<loop_exit, observed>>
    /\ UNCHANGED <<config, char_set, running, disk, total, tried_combinations, found, length, text,
                   f, pos, events, log, tests, applied, stop_at, changed>>

\* for attempt in itertools.product(...): the check of running, the count, the report
BruteNext ==
    /\ pc = "next" /\ kind = "brute"
    /\ LET nx == ProductNext(it, Len(char_set))
       IN  IF nx.done
           THEN /\ pc' = "outer"
                /\ length' = length + 1
                /\ UNCHANGED <<it, text, tried_combinations, events, observed>>
           ELSE IF InnerObservesStop(running)
           THEN /\ pc' = "outer"
                /\ length' = length + 1
                /\ observed' = TRUE
                /\ it' = [idx |-> nx.idx, fresh |-> FALSE]
                /\ UNCHANGED <<text, tried_combinations, events>>
           ELSE /\ tried_combinations' = tried_combinations + 1
                /\ it' = [idx |-> nx.idx, fresh |-> FALSE]
                /\ text' = Join(nx.idx, char_set)
                /\ events' = IF Reports(tried_combinations', total, BrutePeriod)
                             THEN Append(events, Progress(Percent(tried_combinations', total),
                                                          text'))
                             ELSE events
                /\ pc' = "test"
                /\ UNCHANGED <<length, observed>>
    /\ UNCHANGED <<config, char_set, running, disk, total, found, f, pos, log, tests, applied, loop_exit,
                   stop_at, changed>>

\* hashed = get_hash(text, self.hash_type) and the comparison
BruteTest ==
    /\ pc = "test" /\ kind = "brute"
    /\ LET hashed == get_hash(text, hash_type, custom_hash_function)
       IN  /\ log' = Logged(text, hashed)
           /\ tests' = tests + 1
           /\ applied' = applied \cup {Applies(hash_type, custom_hash_function)}
           /\ IF IsMatch(hashed, target_hash)
              THEN /\ events' = events \o <<Match(text, hashed), Progress(100, text)>>
                   /\ found' = TRUE
                   /\ IF BreaksOuter(found')
                      THEN pc' = "final" /\ loop_exit' = "match" /\ UNCHANGED length
                      ELSE pc' = "outer" /\ length' = length + 1 /\ UNCHANGED loop_exit
              ELSE /\ pc' = "next"
                   /\ UNCHANGED <<events, found, loop_exit, length>>
    /\ UNCHANGED <<config, char_set, running, disk, total, tried_combinations, it, text, f, pos,
                   observed, stop_at, changed>>

\* if not found and self.running: emit 100%; then finished_task
BruteFinal ==
    /\ pc = "final" /\ kind = "brute"
    /\ events' = (IF ForcesFinal(found, running)
                  THEN Append(events, Progress(100, <<>>)) ELSE events) \o <<Finished>>
    /\ pc' = "done"
    /\ UNCHANGED <<config, running, disk, locals, history, stop_at, changed>>

(***************************************************************************)
(* The file at the worker's path is replaced between the two passes.       *)
(***************************************************************************)
WordLists == {"empty", "DictPw", "DictAb", "DictOne", "unreadable"}
Tables == {"empty", "TableMix", "TableOne", "unreadable"}
LongFiles == {"empty", "TableOne", "BigFile", "unreadable"}

FilesOf(k, p) ==
    IF ~p THEN LongFiles ELSE IF k \in {"dict", "dict_cli"} THEN WordLists ELSE Tables

FileChange ==
    /\ pc = "open" /\ ~changed
    /\ disk' \in FilesOf(kind, probe) \ {disk}
    /\ changed' = TRUE
    /\ UNCHANGED <<config, running, pc, locals, events, history, stop_at>>

(***************************************************************************)
(* DictionaryBruteForceWorker.run                                          *)
(***************************************************************************)
\* The counting pass; open() raises on an unreadable path.
DictCount ==
    /\ pc = "count" /\ kind = "dict"
    /\ IF Readable(disk)
       THEN /\ total' = Len(FileLines(disk))
            /\ tried_combinations' = 0
            /\ found' = FALSE
            /\ pc' = "open"
       ELSE /\ pc' = "raised"
            /\ UNCHANGED <<total, tried_combinations, found>>
    /\ UNCHANGED <<config, char_set, running, disk, length, it, text, f, pos, events, history,
                   stop_at, changed>>

\* The second open().
DictOpen ==
    /\ pc = "open" /\ kind = "dict"
    /\ IF Readable(disk)
       THEN f' = disk /\ pos' = 0 /\ pc' = "next"
       ELSE pc' = "raised" /\ UNCHANGED <<f, pos>>
    /\ UNCHANGED <<config, char_set, running, disk, total, tried_combinations, found, length, it,
                   text, events, history, stop_at, changed>>

\* for line in f: the check of running, the count, the report, the strip
DictNext ==
    /\ pc = "next" /\ kind = "dict"
    /\ IF pos = Len(FileLines(f))
       THEN /\ pc' = "final"
            /\ loop_exit' = "exhausted"
            /\ UNCHANGED <<pos, tried_combinations, text, events, observed>>
       ELSE IF LineObservesStop(running)
       THEN /\ pc' = "final"
            /\ loop_exit' = "stop"
            /\ observed' = TRUE
            /\ pos' = pos + 1
            /\ UNCHANGED <<tried_combinations, text, events>>
       ELSE LET line == FileLines(f)[pos + 1]
                tried == tried_combinations + 1
            IN  /\ pos' = pos + 1
                /\ tried_combinations' = tried
                /\ UNCHANGED <<loop_exit, observed>>
                /\ IF Reports(tried, total, LinePeriod) /\ total = 0
                   THEN \* ZeroDivisionError
                        pc' = "raised" /\ UNCHANGED <<text, events>>
                   ELSE /\ events' = IF Reports(tried, total, LinePeriod)
                                     THEN Append(events, Progress(Percent(tried, total),
                                                                  Strip(line)))
                                     ELSE events
                        /\ text' = Strip(line)
                        /\ pc' = IF DictSkips(text') THEN "next" ELSE "test"
    /\ UNCHANGED <<config, char_set, running, disk, total, found, length, it, f, log, tests, applied,
                   stop_at, changed>>

\* hashed = get_hash(text, self.hash_type) and the comparison
DictTest ==
    /\ pc = "test" /\ kind = "dict"
    /\ LET hashed == get_hash(text, hash_type, custom_hash_function)
       IN  /\ log' = Logged(text, hashed)
           /\ tests' = tests + 1
           /\ applied' = applied \cup {Applies(hash_type, custom_hash_function)}
           /\ IF IsMatch(hashed, target_hash)
              THEN /\ events' = events \o <<Match(text, hashed), Progress(100, text)>>
                   /\ found' = TRUE
                   /\ pc' = "final"
                   /\ loop_exit' = "match"
              ELSE /\ pc' = "next"
                   /\ UNCHANGED <<events, found, loop_exit>>
    /\ UNCHANGED <<config, char_set, running, disk, total, tried_combinations, length, it, text, f,
                   pos, observed, stop_at, changed>>

DictFinal ==
    /\ pc = "final" /\ kind = "dict"
    /\ events' = (IF ForcesFinal(found, running)
                  THEN Append(events, Progress(100, <<>>)) ELSE events) \o <<Finished>>
    /\ pc' = "done"
    /\ UNCHANGED <<config, running, disk, locals, history, stop_at, changed>>

(***************************************************************************)
(* RainbowTableWorker.run                                                  *)
(***************************************************************************)
RainbowCount ==
    /\ pc = "count" /\ kind = "rainbow"
    /\ IF Readable(disk)
       THEN /\ total' = Len(FileLines(disk))
            /\ tried_combinations' = 0
            /\ found' = FALSE
            /\ pc' = "open"
       ELSE /\ pc' = "raised"
            /\ UNCHANGED <<total, tried_combinations, found>>
    /\ UNCHANGED <<config, char_set, running, disk, length, it, text, f, pos, events, history,
                   stop_at, changed>>

RainbowOpen ==
    /\ pc = "open" /\ kind = "rainbow"
    /\ IF Readable(disk)
       THEN f' = disk /\ pos' = 0 /\ pc' = "next"
       ELSE pc' = "raised" /\ UNCHANGED <<f, pos>>
    /\ UNCHANGED <<config, char_set, running, disk, total, tried_combinations, found, length, it,
                   text, events, history, stop_at, changed>>

\* for line in f: the check of running, the count, the report, the strip,
\* the skip of a blank line and of a line with no colon
RainbowNext ==
    /\ pc = "next" /\ kind = "rainbow"
    /\ IF pos = Len(FileLines(f))
       THEN /\ pc' = "final"
            /\ loop_exit' = "exhausted"
            /\ UNCHANGED <<pos, tried_combinations, text, events, observed>>
       ELSE IF LineObservesStop(running)
       THEN /\ pc' = "final"
            /\ loop_exit' = "stop"
            /\ observed' = TRUE
            /\ pos' = pos + 1
            /\ UNCHANGED <<tried_combinations, text, events>>
       ELSE LET line == FileLines(f)[pos + 1]
                tried == tried_combinations + 1
            IN  /\ pos' = pos + 1
                /\ tried_combinations' = tried
                /\ UNCHANGED <<loop_exit, observed>>
                /\ IF Reports(tried, total, LinePeriod) /\ total = 0
                   THEN \* ZeroDivisionError
                        pc' = "raised" /\ UNCHANGED <<text, events>>
                   ELSE /\ events' = IF Reports(tried, total, LinePeriod)
                                     THEN Append(events, Progress(Percent(tried, total),
                                                                  Strip(line)))
                                     ELSE events
                        /\ text' = Strip(line)
                        /\ pc' = IF RainbowSkips(text') THEN "next" ELSE "test"
    /\ UNCHANGED <<config, char_set, running, disk, total, found, length, it, f, log, tests, applied,
                   stop_at, changed>>

\* A table line that calls get_hash on its plaintext.
RainbowDigestsHashed(ap) == ap \cup {"md5"}

\* The digest functions applied once a table line has been compared: the
\* stored digest is compared as it is, nothing is hashed.
RainbowDigests(ap) == ap

\* stored_hash, plaintext = line.split(':', 1) and the comparison
RainbowTest ==
    /\ pc = "test" /\ kind = "rainbow"
    /\ LET stored_hash == Lower(SplitColon(text)[1])
           plaintext == SplitColon(text)[2]
       IN  /\ log' = Logged(plaintext, stored_hash)
           /\ tests' = tests + 1
           /\ applied' = RainbowDigests(applied)
           /\ IF IsMatch(stored_hash, target_hash)
              THEN /\ events' = events \o <<Match(plaintext, stored_hash),
                                            Progress(100, plaintext)>>
                   /\ found' = TRUE
                   /\ pc' = "final"
                   /\ loop_exit' = "match"
              ELSE /\ pc' = "next"
                   /\ UNCHANGED <<events, found, loop_exit>>
    /\ UNCHANGED <<config, char_set, running, disk, total, tried_combinations, length, it, text, f,
                   pos, observed, stop_at, changed>>

RainbowFinal ==
    /\ pc = "final" /\ kind = "rainbow"
    /\ events' = (IF ForcesFinal(found, running)
                  THEN Append(events, Progress(100, <<>>)) ELSE events) \o <<Finished>>
    /\ pc' = "done"
    /\ UNCHANGED <<config, running, disk, locals, history, stop_at, changed>>

(***************************************************************************)
(* bruteforce_cli                                                          *)
(***************************************************************************)
\* A comparison with the target as it was typed.
CliTargetAsTyped(t) == t

\* args.hash.lower(), computed at each comparison
CliTarget(t) == Lower(t)

\* The charset of a preset: "0" adds string.digits (the other presets'
\* alphabets are left out of the model).
PresetCharset(preset) == IF preset = "0" THEN Digits ELSE <<>>

\* charset = args.charset if args.charset else the preset's; the total
CliCount ==
    /\ pc = "count" /\ kind = "brute_cli"
    /\ char_set' = IF char_set # <<>> THEN char_set ELSE PresetCharset(charset_preset)
    /\ total' = SumPow(Len(char_set'), min_length, max_length)
    /\ tried_combinations' = 0
    /\ found' = FALSE
    /\ length' = min_length
    /\ pc' = "outer"
    /\ UNCHANGED <<config, running, disk, it, text, f, pos, events, history, stop_at, changed>>

\* for length in range(args.min_length, args.max_length + 1)
CliOuter ==
    /\ pc = "outer" /\ kind = "brute_cli"
    /\ IF length > max_length
       THEN pc' = "final" /\ loop_exit' = "exhausted" /\ UNCHANGED it
       ELSE pc' = "next" /\ it' = ProductIter(length) /\ UNCHANGED loop_exit
    /\ UNCHANGED <<config, char_set, running, disk, total, tried_combinations, found, length,
                   text, f, pos, events, log, tests, applied, observed, stop_at, changed>>

\* for attempt in itertools.product(charset, repeat=length): the count, the report
CliNext ==
    /\ pc = "next" /\ kind = "brute_cli"
    /\ LET nx == ProductNext(it, Len(char_set))
       IN  IF nx.done
           THEN /\ pc' = "outer"
                /\ length' = length + 1
                /\ UNCHANGED <<it, text, tried_combinations, events>>
           ELSE /\ tried_combinations' = tried_combinations + 1
                /\ it' = [idx |-> nx.idx, fresh |-> FALSE]
                /\ text' = Join(nx.idx, char_set)
                /\ events' = IF tried_combinations' % BrutePeriod = 0
                             THEN Append(events,
                                         Printed("print_progress",
                                                 Percent(tried_combinations', total),
                                                 text', <<>>))
                             ELSE events
                /\ pc' = "test"
                /\ UNCHANGED length
    /\ UNCHANGED <<config, char_set, running, disk, total, found, f, pos, history,
                   stop_at, changed>>

\* hashed = get_hash(text, args.type); if hashed == args.hash.lower()
CliTest ==
    /\ pc = "test" /\ kind = "brute_cli"
    /\ LET hashed == get_hash(text, hash_type, custom_hash_function)
       IN  /\ log' = Logged(text, hashed)
           /\ tests' = tests + 1
           /\ applied' = applied \cup {Applies(hash_type, custom_hash_function)}
           /\ IF IsMatch(hashed, CliTarget(target_hash))
              THEN /\ events' = Append(events, Printed("print_match", 0, text, hashed))
                   /\ found' = TRUE
                   /\ IF BreaksOuter(found')
                      THEN pc' = "final" /\ loop_exit' = "match" /\ UNCHANGED length
                      ELSE pc' = "outer" /\ length' = length + 1 /\ UNCHANGED loop_exit
              ELSE /\ pc' = "next"
                   /\ UNCHANGED <<events, found, loop_exit, length>>
    /\ UNCHANGED <<config, char_set, running, disk, total, tried_combinations, it, text, f,
                   pos, observed, stop_at, changed>>

\* if not found: print no match; print finished
CliFinal ==
    /\ pc = "final" /\ kind = "brute_cli"
    /\ events' = (IF ~found THEN Append(events, Printed("print_no_match", 0, <<>>, <<>>))
                  ELSE events) \o <<Printed("print_finished", 0, <<>>, <<>>)>>
    /\ pc' = "done"
    /\ UNCHANGED <<config, running, disk, locals, history, stop_at, changed>>

(***************************************************************************)
(* dictionary_cli and rainbow_cli                                          *)
(***************************************************************************)
IsFileCli == kind \in {"dict_cli", "rainbow_cli"}

\* The counting pass of either function.
FileCliCount ==
    /\ pc = "count" /\ IsFileCli
    /\ IF Readable(disk)
       THEN /\ total' = Len(FileLines(disk))
            /\ tried_combinations' = 0
            /\ found' = FALSE
            /\ pc' = "open"
       ELSE /\ pc' = "raised"
            /\ UNCHANGED <<total, tried_combinations, found>>
    /\ UNCHANGED <<config, char_set, running, disk, length, it, text, f, pos, events, history,
                   stop_at, changed>>

\* The second open() of either function.
FileCliOpen ==
    /\ pc = "open" /\ IsFileCli
    /\ IF Readable(disk)
       THEN f' = disk /\ pos' = 0 /\ pc' = "next"
       ELSE pc' = "raised" /\ UNCHANGED <<f, pos>>
    /\ UNCHANGED <<config, char_set, running, disk, total, tried_combinations, found, length, it,
                   text, events, history, stop_at, changed>>

\* for line in f: the count, the report every 1000 lines, the strip, the skips
FileCliNext ==
    /\ pc = "next" /\ IsFileCli
    /\ IF pos = Len(FileLines(f))
       THEN /\ pc' = "final"
            /\ loop_exit' = "exhausted"
            /\ UNCHANGED <<pos, tried_combinations, text, events>>
       ELSE LET line == FileLines(f)[pos + 1]
                tried == tried_combinations + 1
            IN  /\ pos' = pos + 1
                /\ tried_combinations' = tried
                /\ UNCHANGED loop_exit
                /\ IF tried % LinePeriod = 0 /\ total = 0
                   THEN \* ZeroDivisionError
                        pc' = "raised" /\ UNCHANGED <<text, events>>
                   ELSE /\ events' = IF tried % LinePeriod = 0
                                     THEN Append(events,
                                                 Printed("print_progress",
                                                         Percent(tried, total),
                                                         Strip(line), <<>>))
                                     ELSE events
                        /\ text' = Strip(line)
                        /\ pc' = IF (IF kind = "dict_cli" THEN DictSkips(text')
                                     ELSE RainbowSkips(text'))
                                 THEN "next" ELSE "test"
    /\ UNCHANGED <<config, char_set, running, disk, total, found, length, it, f, log, tests,
                   applied, observed, stop_at, changed>>

\* dictionary_cli: hashed = get_hash(text, args.type); if hashed == args.hash.lower()
DictCliTest ==
    /\ pc = "test" /\ kind = "dict_cli"
    /\ LET hashed == get_hash(text, hash_type, custom_hash_function)
       IN  /\ log' = Logged(text, hashed)
           /\ tests' = tests + 1
           /\ applied' = applied \cup {Applies(hash_type, custom_hash_function)}
           /\ IF IsMatch(hashed, CliTarget(target_hash))
              THEN /\ events' = Append(events, Printed("print_match", 0, text, hashed))
                   /\ found' = TRUE
                   /\ pc' = "final"
                   /\ loop_exit' = "match"
              ELSE /\ pc' = "next"
                   /\ UNCHANGED <<events, found, loop_exit>>
    /\ UNCHANGED <<config, char_set, running, disk, total, tried_combinations, length, it, text, f,
                   pos, observed, stop_at, changed>>

\* rainbow_cli: the split at the first colon; if stored_hash == args.hash.lower()
RainbowCliTest ==
    /\ pc = "test" /\ kind = "rainbow_cli"
    /\ LET stored_hash == Lower(SplitColon(text)[1])
           plaintext == SplitColon(text)[2]
       IN  /\ log' = Logged(plaintext, stored_hash)
           /\ tests' = tests + 1
           /\ applied' = RainbowDigests(applied)
           /\ IF IsMatch(stored_hash, CliTarget(target_hash))
              THEN /\ events' = Append(events, Printed("print_match", 0, plaintext, stored_hash))
                   /\ found' = TRUE
                   /\ pc' = "final"
                   /\ loop_exit' = "match"
              ELSE /\ pc' = "next"
                   /\ UNCHANGED <<events, found, loop_exit>>
    /\ UNCHANGED <<config, char_set, running, disk, total, tried_combinations, length, it, text, f,
                   pos, observed, stop_at, changed>>

\* if not found: print no match; print finished
FileCliFinal ==
    /\ pc = "final" /\ IsFileCli
    /\ events' = (IF ~found THEN Append(events, Printed("print_no_match", 0, <<>>, <<>>))
                  ELSE events) \o <<Printed("print_finished", 0, <<>>, <<>>)>>
    /\ pc' = "done"
    /\ UNCHANGED <<config, running, disk, locals, history, stop_at, changed>>

(***************************************************************************)
(* load_custom_hash_function(code), called from the GUI thread by the      *)
(* button of the custom-hash tab, at any moment.  A code is the body of a  *)
(* custom function, "syntax" a body that does not compile, "probe" one     *)
(* that raises on the probe input "test".                                  *)
(***************************************************************************)
MaxLoads == 1

LoadableCodes == CustomFunctions \cup {"syntax", "probe"}

\* exec_module and custom_hash("test") succeed
Loads(code) == code \in CustomFunctions

\* The global assigned as soon as the module is executed, before the probe.
AssignsBeforeProbe(code) == code # "syntax"

\* custom_hash_function = module.custom_hash is reached: the statement stands
\* after exec_module and after the probe call, inside the try.
Assigns(code) == Loads(code)

LoadCustomHash ==
    /\ IsWorker
    /\ loads < MaxLoads
    /\ loads' = loads + 1
    /\ \E code \in LoadableCodes :
          /\ custom_hash_function' = IF Assigns(code) THEN code
                                     ELSE custom_hash_function
          /\ load_log' = Append(load_log, [code |-> code, ok |-> Loads(code)])
    /\ UNCHANGED <<kind, hash_type, target_hash, charset_preset, min_length, max_length, probe, gui,
                   running, disk, pc, locals, events, history, stop_at, changed>>

(***************************************************************************)
(* The inputs                                                              *)
(***************************************************************************)
MaxLen == 2

\* What get_charset() returns when start_bruteforce accepts it: not empty,
\* no character twice.
GuiCharsets == {<<"a">>, <<"a", "b">>, <<"b", "a">>}

\* What --charset may be: any string ("" when it is not given).
CliCharsets == {<<>>, <<"a">>, <<"a", "b">>, <<"a", "a">>}

\* The algorithm chosen and the custom function loaded (which only the
\* CUSTOM algorithm reads).
Setups ==
    {s \in {"MD5", "SHA1", "CUSTOM", "WHIRL"} \X ({"None"} \cup CustomFunctions) :
        s[1] = "CUSTOM" \/ s[2] = "None"}

\* The target as the user typed it.
Targets ==
    { <<"D", "6", "1">>, <<"d", "6", "2">>, <<"d", "6", "1", "6", "2">>,
      <<"E", "6", "1">>, <<"b">>, <<"2">>, <<"d", "f", "f">> }

\* MD5("42"), MD5("9999") and a digest of nothing in the space.
LongBruteTargets ==
    { <<"d", "3", "4", "3", "2">>, <<"d", "3", "9", "3", "9", "3", "9", "3", "9">>,
      <<"d", "f", "f">> }

\* MD5 of the word "d62:b", and the digest stored with plaintext "b".
LongDictTargets == { HexDigest("md5", <<"d", "6", "2", ":", "b">>), <<"d", "f", "f">> }
LongTableTargets == { <<"D", "6", "2">>, <<"d", "f", "f">> }

\* An identifier the combo box of the GUI can hold: an algorithm of hashlib,
\* or CUSTOM once a custom function is loaded.
Bound(hash_type_, custom) ==
    \/ LowerName(hash_type_) \in algorithms_available
    \/ LowerName(hash_type_) = "custom" /\ custom # "None"

GuiSetups == {s \in Setups : Bound(s[1], s[2])}

\* A constructor that keeps the target as it was typed.
TargetAsTyped(t) == t

\* self.target_hash = target_hash.lower()
TargetLower(t) == Lower(t)

\* The window once start_bruteforce has started a worker.
Started ==
    /\ start_enabled = FALSE /\ stop_enabled = TRUE /\ handled = FALSE
    /\ active = 1 /\ clicks = 0 /\ last_click = "started"

\* The state after __init__ of a worker.
Constructed ==
    /\ running = TRUE
    /\ pc = "created"
    /\ total = 0 /\ tried_combinations = 0 /\ found = FALSE
    /\ length = 0 /\ it = ProductIter(0) /\ text = <<>> /\ f = "none" /\ pos = 0
    /\ events = <<>>
    /\ log = <<>> /\ tests = 0 /\ applied = {} /\ stop_at = NoStop /\ observed = FALSE
    /\ loop_exit = "none" /\ changed = FALSE /\ loads = 0 /\ load_log = <<>>
    /\ Started

\* BruteForceWorker(hash_type, target_hash, charset, min_length, max_length) as
\* start_bruteforce builds it: min_length <= max_length, both spin boxes from 1.
InitBrute(charsets, mins, maxs, setups, targets) ==
    /\ kind = "brute"
    /\ \E s \in setups : hash_type = s[1] /\ custom_hash_function = s[2]
    /\ \E t \in targets : target_hash = TargetLower(t)
    /\ char_set \in charsets /\ charset_preset = ""
    /\ min_length \in mins /\ max_length \in maxs
    /\ 1 <= min_length /\ min_length <= max_length
    /\ disk = "none"

\* DictionaryBruteForceWorker(hash_type, target_hash, dict_path)
InitDict(files, setups, targets) ==
    /\ kind = "dict"
    /\ \E s \in setups : hash_type = s[1] /\ custom_hash_function = s[2]
    /\ \E t \in targets : target_hash = TargetLower(t)
    /\ char_set = <<>> /\ charset_preset = "" /\ min_length = 0 /\ max_length = 0
    /\ disk \in files

\* RainbowTableWorker(target_hash, rainbow_path)
InitRainbow(files, targets) ==
    /\ kind = "rainbow"
    /\ hash_type = "" /\ custom_hash_function = "None"
    /\ \E t \in targets : target_hash = TargetLower(t)
    /\ char_set = <<>> /\ charset_preset = "" /\ min_length = 0 /\ max_length = 0
    /\ disk \in files

\* bruteforce_cli(args): any --charset, any lengths, any --type.
InitCli(charsets, presets, mins, maxs, setups, targets) ==
    /\ kind = "brute_cli"
    /\ \E s \in setups : hash_type = s[1] /\ custom_hash_function = s[2]
    /\ target_hash \in targets
    /\ char_set \in charsets /\ charset_preset \in presets
    /\ min_length \in mins /\ max_length \in maxs
    /\ disk = "none"

\* dictionary_cli(args) and rainbow_cli(args): any path, any --type.
InitFileCli(k, files, setups, targets) ==
    /\ kind = k
    /\ \E s \in setups : hash_type = s[1] /\ custom_hash_function = s[2]
    /\ target_hash \in targets
    /\ char_set = <<>> /\ charset_preset = "" /\ min_length = 0 /\ max_length = 0
    /\ disk \in files

\* The targets of the two example files: MD5("123456"), and MD5("password")
\* as stored and in upper case.
PasswordTargets ==
    { HexDigest("md5", <<"1", "2", "3", "4", "5", "6">>), Md5Password,
      [i \in 1..Len(Md5Password) |->
          CASE Md5Password[i] = "a" -> "A" [] Md5Password[i] = "b" -> "B"
            [] Md5Password[i] = "c" -> "C" [] Md5Password[i] = "d" -> "D"
            [] Md5Password[i] = "e" -> "E" [] Md5Password[i] = "f" -> "F"
            [] OTHER -> Md5Password[i]] }

(***************************************************************************)
(* The main window: the start and stop buttons and the handler of          *)
(* finished_task.  A disabled button emits no clicked signal.              *)
(***************************************************************************)
MaxClicks == 4

\* The tabs: brute force, dictionary, rainbow tables, custom hash.
Tabs == 0..3

\* What the user may have typed and chosen.
TypedTargets == { <<>>, <<" ">>, <<"D", "6", "2">>, <<"d", "f", "f">> }
TypedCharsets == { <<>>, <<"a", "b">> }
TypedLengths == 1..2
TypedPaths == { "", "missing", "DictAb", "TableOne", "unreadable" }

\* get_available_hash_algorithms(): CUSTOM is listed once a function is loaded.
ComboItems(custom) == {"MD5"} \cup (IF custom # "None" THEN {"CUSTOM"} ELSE {})

\* not path or not os.path.isfile(path)
NoFile(path) == path \in {"", "missing"}

\* The early returns of start_bruteforce.
Rejected(tab, target, charset, lo, hi, path) ==
    \/ target = <<>>
    \/ tab = 0 /\ (charset = <<>> \/ lo > hi)
    \/ tab \in {1, 2} /\ NoFile(path)
    \/ tab \notin {0, 1, 2}

WorkerOf(tab) == CASE tab = 0 -> "brute" [] tab = 1 -> "dict" [] tab = 2 -> "rainbow"

\* A start_bruteforce that leaves the start button as it is.
StartDisablesNever(enabled) == enabled

\* self.start_button.setEnabled(False)
StartDisables(enabled) == FALSE

StartBruteforce ==
    /\ start_enabled
    /\ clicks < MaxClicks
    /\ clicks' = clicks + 1
    /\ \E tab \in Tabs, typed \in TypedTargets, cs \in TypedCharsets,
          lo \in TypedLengths, hi \in TypedLengths, path \in TypedPaths,
          ht \in ComboItems(custom_hash_function) :
          IF Rejected(tab, Strip(typed), cs, lo, hi, path)
          THEN /\ last_click' = "rejected"
               /\ UNCHANGED <<kind, hash_type, target_hash, charset_preset, min_length,
                              max_length, custom_hash_function, loads, load_log, probe,
                              start_enabled, stop_enabled, handled, active,
                              running, disk, pc, locals, events, history, stop_at, changed>>
          ELSE /\ last_click' = "started"
               /\ kind' = WorkerOf(tab)
               /\ hash_type' = IF tab = 2 THEN "" ELSE ht
               /\ target_hash' = TargetLower(Strip(typed))
               /\ char_set' = IF tab = 0 THEN cs ELSE <<>>
               /\ min_length' = IF tab = 0 THEN lo ELSE 0
               /\ max_length' = IF tab = 0 THEN hi ELSE 0
               /\ disk' = IF tab = 0 THEN "none" ELSE path
               /\ running' = TRUE
               /\ pc' = "count"
               /\ total' = 0 /\ tried_combinations' = 0 /\ found' = FALSE
               /\ length' = 0 /\ it' = ProductIter(0) /\ text' = <<>>
               /\ f' = "none" /\ pos' = 0
               /\ events' = <<>>
               /\ log' = <<>> /\ tests' = 0 /\ applied' = {} /\ stop_at' = NoStop
               /\ observed' = FALSE /\ loop_exit' = "none" /\ changed' = FALSE
               /\ start_enabled' = StartDisables(start_enabled)
               /\ stop_enabled' = TRUE
               /\ handled' = FALSE
               /\ active' = active + 1
               /\ UNCHANGED <<charset_preset, custom_hash_function, loads, load_log, probe>>

\* stop_bruteforce: if self.worker: self.worker.stop()
StopBruteforce ==
    /\ stop_enabled
    /\ clicks < MaxClicks
    /\ clicks' = clicks + 1
    /\ last_click' = "stop"
    /\ IF IsWorker
       THEN /\ running' = StopClears(running)
            /\ stop_at' = IF stop_at = NoStop /\ running
                          THEN [tried |-> tried_combinations, tests |-> tests,
                                remaining |-> Remaining]
                          ELSE stop_at
       ELSE UNCHANGED <<running, stop_at>>
    /\ UNCHANGED <<kind, hash_type, target_hash, charset_preset, min_length, max_length,
                   custom_hash_function, loads, load_log, probe,
                   start_enabled, stop_enabled, handled, active,
                   disk, pc, locals, events, history, changed>>

\* finished_task, run on the GUI thread once the worker's signal is delivered.
FinishedTask ==
    /\ IsWorker
    /\ \E i \in 1..Len(events) : events[i] = Finished
    /\ ~handled
    /\ clicks < MaxClicks
    /\ clicks' = clicks + 1
    /\ last_click' = "finished"
    /\ handled' = TRUE
    /\ start_enabled' = TRUE
    /\ stop_enabled' = FALSE
    /\ active' = active - 1
    /\ UNCHANGED <<kind, hash_type, target_hash, charset_preset, min_length, max_length,
                   custom_hash_function, loads, load_log, probe,
                   running, disk, pc, locals, events, history, stop_at, changed>>

Init ==
    /\ probe = TRUE
    /\ Constructed
    /\ \/ InitBrute(GuiCharsets, 1..MaxLen, 1..MaxLen, GuiSetups, Targets)
       \/ InitBrute({Digits}, {1}, {4}, {<<"MD5", "None">>}, {HexDigest("md5", <<"4", "2">>)})
       \/ InitDict(WordLists, GuiSetups, Targets)
       \/ InitDict({"DictPassword"}, {<<"MD5", "None">>}, PasswordTargets)
       \/ InitRainbow(Tables, Targets)
       \/ InitRainbow({"TablePassword"}, PasswordTargets)
       \/ InitCli(CliCharsets, {""}, 0..MaxLen, 0..MaxLen, Setups, Targets)
       \/ InitCli({<<>>}, {"0"}, {1}, {1}, {<<"MD5", "None">>}, Targets)
       \/ InitFileCli("dict_cli", WordLists, Setups, Targets)
       \/ InitFileCli("dict_cli", {"DictPassword"}, {<<"MD5", "None">>}, PasswordTargets)
       \/ InitFileCli("rainbow_cli", Tables, {<<"MD5", "None">>}, Targets)
       \/ InitFileCli("rainbow_cli", {"TablePassword"}, {<<"MD5", "None">>}, PasswordTargets)

\* Long runs, which reach the reporting periods.
InitLong ==
    /\ probe = FALSE
    /\ Constructed
    /\ \/ InitBrute({Digits}, {1}, {4}, {<<"MD5", "None">>}, LongBruteTargets)
       \/ InitDict(LongFiles, {<<"MD5", "None">>}, LongDictTargets)
       \/ InitRainbow(LongFiles, LongTableTargets)
       \/ InitCli({<<>>}, {"0"}, {1}, {4}, {<<"MD5", "None">>}, LongBruteTargets)
       \/ InitFileCli("dict_cli", LongFiles, {<<"MD5", "None">>}, LongDictTargets)
       \/ InitFileCli("rainbow_cli", LongFiles, {<<"MD5", "None">>}, LongTableTargets)

Next ==
    \/ Start
    \/ Stop
    \/ FileChange
    \/ BruteCount \/ BruteOuter \/ BruteNext \/ BruteTest \/ BruteFinal
    \/ DictCount \/ DictOpen \/ DictNext \/ DictTest \/ DictFinal
    \/ RainbowCount \/ RainbowOpen \/ RainbowNext \/ RainbowTest \/ RainbowFinal
    \/ CliCount \/ CliOuter \/ CliNext \/ CliTest \/ CliFinal
    \/ FileCliCount \/ FileCliOpen \/ FileCliNext \/ DictCliTest \/ RainbowCliTest
    \/ FileCliFinal

Spec == Init /\ [][Next]_vars

\* The steps of run() on the worker's thread, which the scheduler keeps
\* running: a started run() is never suspended forever.
Run ==
    \/ BruteCount \/ BruteOuter \/ BruteNext \/ BruteTest \/ BruteFinal
    \/ DictCount \/ DictOpen \/ DictNext \/ DictTest \/ DictFinal
    \/ RainbowCount \/ RainbowOpen \/ RainbowNext \/ RainbowTest \/ RainbowFinal

\* The workers the GUI starts, under MD5.
InitLive ==
    /\ probe = TRUE
    /\ Constructed
    /\ \/ InitBrute({<<"a", "b">>}, {1}, {MaxLen}, {<<"MD5", "None">>}, Targets)
       \/ InitDict(WordLists, {<<"MD5", "None">>}, Targets)
       \/ InitRainbow(Tables, Targets)

NextLive == Start \/ Stop \/ FileChange \/ Run

SpecLive == InitLive /\ [][NextLive]_vars /\ WF_vars(Run)

\* The GUI process, where the custom function may be loaded while a worker
\* runs.
InitLoad ==
    /\ probe = TRUE
    /\ Constructed
    /\ \/ InitBrute({<<"a", "b">>}, {1}, {2}, GuiSetups, Targets)
       \/ InitDict(WordLists, GuiSetups, Targets)
       \/ InitRainbow(Tables, Targets)

NextLoad ==
    \/ Start
    \/ Stop
    \/ FileChange
    \/ LoadCustomHash
    \/ BruteCount \/ BruteOuter \/ BruteNext \/ BruteTest \/ BruteFinal
    \/ DictCount \/ DictOpen \/ DictNext \/ DictTest \/ DictFinal
    \/ RainbowCount \/ RainbowOpen \/ RainbowNext \/ RainbowTest \/ RainbowFinal

SpecLoad == InitLoad /\ [][NextLoad]_vars

SpecLong == InitLong /\ [][Next]_vars

\* The window as __init__ leaves it: no worker, start enabled, stop disabled.
InitGui ==
    /\ probe = TRUE
    /\ kind = "none" /\ pc = "none"
    /\ hash_type = "" /\ target_hash = <<>> /\ char_set = <<>> /\ charset_preset = ""
    /\ min_length = 0 /\ max_length = 0 /\ disk = "none"
    /\ custom_hash_function \in {"None", "last"}
    /\ running = FALSE
    /\ total = 0 /\ tried_combinations = 0 /\ found = FALSE
    /\ length = 0 /\ it = ProductIter(0) /\ text = <<>> /\ f = "none" /\ pos = 0
    /\ events = <<>>
    /\ log = <<>> /\ tests = 0 /\ applied = {} /\ stop_at = NoStop /\ observed = FALSE
    /\ loop_exit = "none" /\ changed = FALSE /\ loads = 0 /\ load_log = <<>>
    /\ start_enabled = TRUE /\ stop_enabled = FALSE /\ handled = FALSE
    /\ active = 0 /\ clicks = 0 /\ last_click = "none"

NextGui ==
    \/ StartBruteforce
    \/ StopBruteforce
    \/ FinishedTask
    \/ FileChange
    \/ Run

SpecGui == InitGui /\ [][NextGui]_vars

\* A dictionary search, never cancelled, over a word list of ListLines lines,
\* none of which matches.
InitList ==
    /\ probe = FALSE
    /\ Constructed
    /\ InitDict({"LongList"}, {<<"MD5", "None">>}, {<<"d", "f", "f">>})

NextList ==
    \/ Start
    \/ DictCount \/ DictOpen \/ DictNext \/ DictTest \/ DictFinal

SpecList == InitList /\ [][NextList]_vars

(***************************************************************************)
(* What the claims speak of                                                *)
(***************************************************************************)
IsProgress(e) == e.sig = "update_progress"
IsFoundMatch(e) == e.sig = "found_match"
IsFinished(e) == e.sig = "finished_task"

ProgressEvents == SelectSeq(events, IsProgress)
MatchEvents == SelectSeq(events, IsFoundMatch)
FinishedEvents == SelectSeq(events, IsFinished)

Over == pc \in {"done", "raised"}
Stopped == stop_at # NoStop

\* The k-th candidate of the space, lengths ascending: within the length L
\* it falls in, the string whose characters are the digits of its rank in
\* base len(cs), first character most significant.
RECURSIVE Candidate(_, _, _, _)
Candidate(cs, lo, hi, k) ==
    IF k <= Pow(Len(cs), lo)
    THEN [i \in 1..lo |-> cs[(((k - 1) \div Pow(Len(cs), lo - i)) % Len(cs)) + 1]]
    ELSE Candidate(cs, lo + 1, hi, k - Pow(Len(cs), lo))

ExpectedOrder(cs, lo, hi) ==
    [k \in 1..SumPow(Len(cs), lo, hi) |-> Candidate(cs, lo, hi, k)]

IsCharsetSearch == kind \in {"brute", "brute_cli"}

\* The matches reported: found_match of a worker, the line bruteforce_cli prints.
IsReport(e) == e.sig \in {"found_match", "print_match"}
MatchReports == SelectSeq(events, IsReport)

LogTexts == [i \in 1..Len(log) |-> log[i].text]

(***************************************************************************)
(* C1.  The percents of the successive update_progress events never        *)
(* decrease, and a run that ends with a match or by exhausting its         *)
(* candidates has emitted a last progress event of exactly 100.            *)
(***************************************************************************)
ProgressMonotone ==
    \A i, j \in 1..Len(ProgressEvents) :
        i <= j => ProgressEvents[i].value <= ProgressEvents[j].value

EndsAtHundred ==
    (IsWorker /\ pc = "done" /\ loop_exit \in {"match", "exhausted"}) =>
        /\ ProgressEvents # <<>>
        /\ ProgressEvents[Len(ProgressEvents)].value = 100

ClaimC1 == ProgressMonotone /\ EndsAtHundred

(***************************************************************************)
(* C2.  found_match is emitted at most once, update_progress(100,          *)
(* plaintext) follows it at once, only finished_task may follow that, and  *)
(* no candidate is processed after the match.                              *)
(***************************************************************************)
MatchShape ==
    LET at == {i \in 1..Len(events) : IsFoundMatch(events[i])}
    IN  /\ Cardinality(at) <= 1
        /\ \A i \in at :
              /\ Len(events) >= i + 1
              /\ events[i + 1] = Progress(100, events[i].text)
              /\ \A j \in (i + 2)..Len(events) : j = Len(events) /\ events[j] = Finished

NothingAfterMatch ==
    [][found => /\ tried_combinations' = tried_combinations
                /\ tests' = tests
                /\ log' = log]_vars

ThmC2 == []MatchShape /\ NothingAfterMatch

WitC2 == pc = "done" /\ found /\ Len(events) = 3 /\ tried_combinations < total

(***************************************************************************)
(* C3.  A candidate pass that ran to its natural end without a match,      *)
(* every one of its candidates (at least one) processed, is followed by    *)
(* update_progress(100, "") and then finished_task, whenever stop()        *)
(* arrives.                                                                *)
(***************************************************************************)
ClaimC3 ==
    (/\ IsWorker /\ pc = "done" /\ loop_exit = "exhausted"
     /\ total > 0 /\ tried_combinations = total) =>
        /\ Len(events) >= 2
        /\ events[Len(events) - 1] = Progress(100, <<>>)
        /\ events[Len(events)] = Finished

(***************************************************************************)
(* C4.  Once a loop check has seen running == False, no further candidate  *)
(* is processed, no update_progress and no found_match is emitted, and the *)
(* run ends with finished_task.                                            *)
(***************************************************************************)
QuietAfterObserving ==
    [][observed => /\ tried_combinations' = tried_combinations
                   /\ tests' = tests
                   /\ log' = log
                   /\ events' \in {events, Append(events, Finished)}
                   /\ pc' # "raised"]_vars

FinishesAfterObserving ==
    (observed /\ Over) => (pc = "done" /\ events[Len(events)] = Finished)

ThmC4 == []FinishesAfterObserving /\ QuietAfterObserving

WitC4 == observed /\ pc = "done" /\ tried_combinations > 0 /\ Remaining = 0 /\ ~found
            /\ stop_at.remaining > 0

(***************************************************************************)
(* C5.  Every started worker emits finished_task exactly once, as its last *)
(* event.                                                                  *)
(***************************************************************************)
ClaimC5 ==
    IsWorker =>
        /\ Len(FinishedEvents) <= 1
        /\ FinishedEvents # <<>> => events[Len(events)] = Finished
        /\ Over => Len(FinishedEvents) = 1

(***************************************************************************)
(* C6.  After stop() the worker begins no new candidate iteration and      *)
(* makes at most one more digest computation or table-line comparison.     *)
(***************************************************************************)
ThmC6 ==
    Stopped => /\ tried_combinations = stop_at.tried
               /\ tests <= stop_at.tests + 1

WitC6 == /\ Stopped /\ pc = "done" /\ tests = stop_at.tests + 1
         /\ stop_at.remaining >= 2 /\ ~found

NoMoreLinesThanCounted == IsCharsetSearch \/ Len(FileLines(f)) <= total

Hits(space) ==
    {i \in 1..Len(space) :
        get_hash(space[i], hash_type, custom_hash_function) = Lower(target_hash)}

FirstHit(space) == CHOOSE i \in Hits(space) : \A j \in Hits(space) : i <= j

ThmC8 ==
    (pc = "done" /\ IsCharsetSearch /\ running) =>
        LET space == ExpectedOrder(char_set, min_length, max_length)
            hits == Hits(space)
        IN  /\ hits # {} =>
                 /\ Len(MatchReports) = 1
                 /\ MatchReports[1].text = space[FirstHit(space)]
                 /\ MatchReports[1].hashed = Lower(target_hash)
                 /\ loop_exit = "match"
            /\ hits = {} => MatchReports = <<>>
            /\ (char_set = Digits /\ min_length = 1 /\ max_length = 4 /\ hash_type = "MD5"
                  /\ Lower(target_hash) = HexDigest("md5", <<"4", "2">>)) =>
                 /\ MatchReports # <<>>
                 /\ MatchReports[1].text = <<"4", "2">>

WitC8 ==
    /\ pc = "done" /\ kind = "brute" /\ running /\ found
    /\ Len(char_set) = 2
    /\ Cardinality(Hits(ExpectedOrder(char_set, min_length, max_length))) >= 2
    /\ FirstHit(ExpectedOrder(char_set, min_length, max_length)) > 1

(***************************************************************************)
(* C9.  The charset search tries its candidates by ascending length and,   *)
(* within a length, in odometer order, the first character most            *)
(* significant; for "ab" and lengths 1..2: a, b, aa, ab, ba, bb.           *)
(***************************************************************************)
ThmC9 ==
    IsCharsetSearch =>
        /\ Len(log) <= SumPow(Len(char_set), min_length, max_length)
        /\ \A k \in 1..Len(log) :
              log[k].text = Candidate(char_set, min_length, max_length, k)
        /\ (/\ char_set = <<"a", "b">> /\ min_length = 1 /\ max_length = 2
            /\ pc = "done" /\ loop_exit = "exhausted") =>
              LogTexts = << <<"a">>, <<"b">>, <<"a", "a">>, <<"a", "b">>,
                            <<"b", "a">>, <<"b", "b">> >>

WitC9 ==
    /\ kind = "brute" /\ pc = "done"
    /\ LogTexts = << <<"a">>, <<"b">>, <<"a", "a">>, <<"a", "b">>, <<"b", "a">>, <<"b", "b">> >>

(***************************************************************************)
(* C10.  A complete pass of the charset search with no match tries exactly *)
(* the sum over L of len(charset)^L strings, each of a length within       *)
(* [min, max], and none of them twice, for any charset string.             *)
(***************************************************************************)
ClaimC10 ==
    (pc = "done" /\ IsCharsetSearch /\ loop_exit = "exhausted") =>
        /\ Len(log) = SumPow(Len(char_set), min_length, max_length)
        /\ \A i \in 1..Len(log) : Len(log[i].text) \in min_length..max_length
        /\ \A i, j \in 1..Len(log) : i # j => log[i].text # log[j].text

(***************************************************************************)
(* C11.  The rainbow-table search (worker and rainbow_cli) applies no      *)
(* digest function at any point of a run, and a compared line is a match   *)
(* exactly when its lowercased stored digest equals the lowercased target. *)
(***************************************************************************)
IsTableSearch == kind \in {"rainbow", "rainbow_cli"}

ThmC11 ==
    IsTableSearch =>
        /\ applied = {}
        /\ \A i \in 1..Len(log) :
              (log[i].hashed = Lower(target_hash)) <=> (found /\ i = Len(log))

WitC11 == IsTableSearch /\ pc = "done" /\ found /\ tests >= 2 /\ target_hash # Lower(target_hash)

(***************************************************************************)
(* C12.  The lines the rainbow-table search compares are, in file order,   *)
(* the non-blank lines that hold a colon; of each the stored digest is the *)
(* lowercased text before the first colon and the plaintext all the text   *)
(* after it; a line with no colon does not end the run; the table          *)
(* "5f4dcc3b5aa765d61d8327deb882cf99:password" answers that digest in      *)
(* upper case with "password".                                             *)
(***************************************************************************)
ColonsOf(s) == {k \in 1..Len(s) : s[k] = ":"}

LeastOf(S) == CHOOSE k \in S : \A j \in S : k <= j

HoldsEntry(s) == s # <<>> /\ ColonsOf(s) # {}

\* The stripped lines read so far that hold an entry.
EntriesRead == SelectSeq([i \in 1..pos |-> Strip(FileLines(f)[i])], HoldsEntry)

ThmC12 ==
    (IsTableSearch /\ pc \in {"next", "test", "final", "done"}) =>
        /\ Len(log) <= Len(EntriesRead)
        /\ \A i \in 1..Len(log) :
              LET s == EntriesRead[i]
                  k == LeastOf(ColonsOf(s))
              IN  /\ log[i].hashed = Lower(SubSeq(s, 1, k - 1))
                  /\ log[i].text = SubSeq(s, k + 1, Len(s))
        /\ (pc = "done" /\ loop_exit # "stop") =>
              /\ Len(log) = Len(EntriesRead)
              /\ found \/ pos = Len(FileLines(f))
              /\ found => /\ Len(MatchReports) = 1
                          /\ MatchReports[1].text = log[Len(log)].text
                          /\ MatchReports[1].hashed = Lower(target_hash)
              /\ (f = "TablePassword" /\ Lower(target_hash) = Md5Password) =>
                     /\ found
                     /\ MatchReports[1].text = <<"p", "a", "s", "s", "w", "o", "r", "d">>

WitC12 ==
    /\ IsTableSearch /\ pc = "done" /\ f = "TableMix" /\ found
    /\ MatchReports[1].text = <<"a", ":", "b">>

(***************************************************************************)
(* C13.  The candidates the dictionary search (worker and dictionary_cli)  *)
(* hashes are, in file order, the lines of the file with the whitespace at *)
(* both ends removed, those that are then empty left out, up to the first  *)
(* match or the cancellation; "password\n\n123456\n" gives password,       *)
(* 123456.                                                                 *)
(***************************************************************************)
IsWordSearch == kind \in {"dict", "dict_cli"}

\* s from its first to its last character that is not whitespace.
Trimmed(s) ==
    LET inked == {k \in 1..Len(s) : ~IsSpace(s[k])}
    IN  IF inked = {} THEN <<>>
        ELSE SubSeq(s, LeastOf(inked), CHOOSE k \in inked : \A j \in inked : j <= k)

IsWord(s) == s # <<>>

WordsRead == SelectSeq([i \in 1..pos |-> Trimmed(FileLines(f)[i])], IsWord)

ThmC13 ==
    (IsWordSearch /\ pc \in {"next", "test", "final", "done"}) =>
        /\ Len(log) <= Len(WordsRead)
        /\ \A i \in 1..Len(log) : log[i].text = WordsRead[i]
        /\ \A i \in 1..Len(MatchReports) : MatchReports[i].text # <<>>
        /\ (pc = "done" /\ loop_exit # "stop") =>
              /\ Len(log) = Len(WordsRead)
              /\ found \/ pos = Len(FileLines(f))
        /\ (pc = "done" /\ loop_exit = "exhausted" /\ f = "DictPassword") =>
              LogTexts = << <<"p", "a", "s", "s", "w", "o", "r", "d">>,
                            <<"1", "2", "3", "4", "5", "6">> >>

WitC13 ==
    /\ IsWordSearch /\ pc = "done" /\ f = "DictPassword"
    /\ LogTexts = << <<"p", "a", "s", "s", "w", "o", "r", "d">>,
                     <<"1", "2", "3", "4", "5", "6">> >>

(***************************************************************************)
(* C14.  Under CUSTOM, a candidate on which the loaded custom function     *)
(* raises is given the lowercase-hex MD5 digest of the candidate, and the  *)
(* search goes on to the next candidate: the charset search never ends by  *)
(* an error and an exhausted pass has hashed its whole space.              *)
(***************************************************************************)
UnderCustom == LowerName(hash_type) = "custom" /\ custom_hash_function # "None"

ThmC14 ==
    UnderCustom =>
        /\ \A i \in 1..Len(log) :
              CustomCall(custom_hash_function, log[i].text).raised =>
                  log[i].hashed = HexDigest("md5", log[i].text)
        /\ IsCharsetSearch => pc # "raised"
        /\ (IsCharsetSearch /\ pc = "done" /\ loop_exit = "exhausted") =>
              Len(log) = SumPow(Len(char_set), min_length, max_length)

WitC14 ==
    /\ UnderCustom /\ kind = "brute" /\ pc = "done" /\ Len(log) >= 3
    /\ CustomCall(custom_hash_function, log[1].text).raised
    /\ ~CustomCall(custom_hash_function, log[3].text).raised

(***************************************************************************)
(* C15.  As stated: under CUSTOM, a candidate for which the loaded custom  *)
(* function returns a value that is not a string is given the MD5 digest   *)
(* of the candidate, as when the function raises.                          *)
(***************************************************************************)
ClaimC15 ==
    UnderCustom =>
        \A i \in 1..Len(log) :
            ~CustomCall(custom_hash_function, log[i].text).isstr =>
                log[i].hashed = HexDigest("md5", log[i].text)

\* C15 as amended: such a candidate is given str(value), the decimal digits
\* of an int, which is not the MD5 digest that a raising function leaves.
ThmC15 ==
    UnderCustom =>
        \A i \in 1..Len(log) :
            LET result == CustomCall(custom_hash_function, log[i].text)
            IN  (~result.raised /\ ~result.isstr) =>
                    /\ log[i].hashed = IntStr(result.val)
                    /\ log[i].hashed # HexDigest("md5", log[i].text)

WitC15 ==
    /\ UnderCustom /\ pc = "done" /\ Len(log) >= 2
    /\ ~CustomCall(custom_hash_function, log[2].text).isstr
    /\ log[2].hashed = <<"2">>

(***************************************************************************)
(* C16.  Under an algorithm identifier bound to no digest function (an     *)
(* unknown name, or CUSTOM with no custom function loaded) no search runs: *)
(* no candidate is taken and no candidate is hashed.                       *)
(***************************************************************************)
ClaimC16 ==
    (~IsTableSearch /\ ~Bound(hash_type, custom_hash_function)) =>
        /\ tried_combinations = 0
        /\ applied = {}
        /\ MatchReports = <<>>

(***************************************************************************)
(* C17.  A charset search whose charset is empty, or whose min_length is   *)
(* greater than its max_length, is rejected before its total is counted:   *)
(* it never counts, enumerates, or ends reporting no match.                *)
(***************************************************************************)
\* The charset the search works with: --charset, or else the preset's.
EffectiveCharset == IF char_set # <<>> THEN char_set ELSE PresetCharset(charset_preset)

ClaimC17 ==
    (IsCharsetSearch /\ (EffectiveCharset = <<>> \/ min_length > max_length)) =>
        pc \in {"created", "count"}

(***************************************************************************)
(* C18.  No dictionary or rainbow worker is ever past its start with a     *)
(* path that cannot be opened.                                             *)
(***************************************************************************)
ClaimC18 ==
    (kind \in {"dict", "rainbow"} /\ pc # "created") => Readable(disk)

(***************************************************************************)
(* C19.  No error ends a worker's run: whatever the file holds and however *)
(* it changes after the counting pass has read it, run() does not end by   *)
(* an exception.                                                           *)
(***************************************************************************)
\* The counting pass has opened and read the file.
Counted == changed \/ f # "none" \/ pc = "open"

ClaimC19 == (IsWorker /\ Counted) => pc # "raised"
(***************************************************************************)
(* C20.  All the candidates of one run of a worker are hashed with the     *)
(* same digest function: nothing the caller does between the start and     *)
(* finished_task changes the function get_hash applies.                    *)
(***************************************************************************)
ClaimC20 == IsWorker => Cardinality(applied) <= 1
(***************************************************************************)
(* C21.  Once a call of load_custom_hash_function has stored a custom      *)
(* function, no later call replaces the stored function.                   *)
(***************************************************************************)
ClaimC21 ==
    [][custom_hash_function # "None" => custom_hash_function' = custom_hash_function]_vars
(***************************************************************************)
(* C28.  A call of load_custom_hash_function whose code does not compile   *)
(* or raises on the probe input returns False and leaves the stored        *)
(* function as it was; the stored function changes only in a call that     *)
(* returned True, and then to the function of that call.                   *)
(***************************************************************************)
LastLoad == load_log[Len(load_log)]

FailingCodes == {"syntax", "probe"}

ThmC28 ==
    [][loads' = loads + 1 =>
          LET call == load_log'[Len(load_log')]
          IN  /\ call.code \in FailingCodes =>
                    ~call.ok /\ custom_hash_function' = custom_hash_function
              /\ custom_hash_function' # custom_hash_function =>
                    call.ok /\ custom_hash_function' = call.code]_vars

\* A failing call made while a function was stored: the function is kept.
WitC28 ==
    /\ load_log # <<>>
    /\ LastLoad.code = "probe" /\ ~LastLoad.ok
    /\ custom_hash_function \in CustomFunctions
(***************************************************************************)
(* C22.  A worker goes from created to running to one terminal state       *)
(* (matched, exhausted or cancelled) and stays there: a running flag that  *)
(* stop() has cleared is never set again, and after finished_task the      *)
(* worker emits no event and processes no candidate.                       *)
(***************************************************************************)
Phase ==
    CASE pc = "created" -> "created"
      [] pc = "done"    -> "terminal"
      [] pc = "raised"  -> "aborted"
      [] OTHER          -> "running"

HasFinished == FinishedEvents # <<>>

ThmC22 ==
    /\ [](IsWorker /\ HasFinished =>
             /\ pc = "done"
             /\ loop_exit \in {"match", "exhausted", "stop"}
             /\ loop_exit = "match" <=> found
             /\ Len(FinishedEvents) = 1
             /\ IsFinished(events[Len(events)]))
    /\ [][IsWorker =>
             /\ ~running => ~running'
             /\ Phase = "created" => Phase' \in {"created", "running"}
             /\ Phase = "running" => Phase' # "created"
             /\ Phase = "terminal" => Phase' = "terminal"
             /\ HasFinished =>
                   /\ events' = events
                   /\ tried_combinations' = tried_combinations
                   /\ tests' = tests /\ log' = log /\ pos' = pos /\ it' = it
                   /\ loop_exit' = loop_exit /\ found' = found]_vars

\* stop() is called on a worker that has emitted finished_task after
\* exhausting its candidates.
WitC22 ==
    /\ IsWorker /\ HasFinished
    /\ loop_exit = "exhausted" /\ ~running /\ tests > 0
(***************************************************************************)
(* C23.  The total of a worker is set once, before the first candidate is  *)
(* processed, and never changes afterwards: it is the sum of               *)
(* len(charset)^L over the lengths L of the range for the charset search,  *)
(* and the number of lines the counting pass read for the file searches.   *)
(***************************************************************************)
RECURSIVE SizeOfSpace(_, _, _)
SizeOfSpace(n, lo, hi) ==
    IF lo > hi THEN 0
    ELSE Cardinality([1..lo -> 1..n]) + SizeOfSpace(n, lo + 1, hi)

ThmC23 ==
    [][IsWorker =>
          IF pc = "count" /\ pc' \notin {"count", "raised"}
          THEN /\ tests = 0 /\ tried_combinations' = 0 /\ tests' = 0
               /\ kind = "brute" =>
                     total' = SizeOfSpace(Len(char_set), min_length, max_length)
               /\ kind # "brute" => total' = Len(FileLines(disk))
          ELSE total' = total]_vars

\* A file search that has compared lines of a file longer than the one the
\* counting pass read.
WitC23 ==
    /\ kind \in {"dict", "rainbow"} /\ pc = "done" /\ changed
    /\ tests > 0 /\ total > 0 /\ total < Len(FileLines(f))
(***************************************************************************)
(* C24.  In the candidate loop a worker emits a progress event exactly     *)
(* when the tried counter, just incremented, is a multiple of the period   *)
(* (10,000 for the charset search, 1,000 for the file searches) or equals  *)
(* the total; the event carries min(100, floor(100 * tried / total)) and   *)
(* the text of the current candidate or line.                              *)
(***************************************************************************)
PeriodOf(k) == IF k = "brute" THEN BrutePeriod ELSE LinePeriod

AtThreshold(tried) == tried % PeriodOf(kind) = 0 \/ tried = total

FloorPercent(tried, tot) == Min(100, (100 * tried) \div tot)

ClaimC24 ==
    [][(IsWorker /\ tried_combinations' = tried_combinations + 1) =>
          IF AtThreshold(tried_combinations')
          THEN /\ total # 0
               /\ events' = Append(events,
                                   Progress(FloorPercent(tried_combinations', total), text'))
          ELSE events' = events]_vars
(***************************************************************************)
(* C25.  Every update_progress event of a worker carries a percent between *)
(* 0 and 100, also when the file holds another number of lines in the      *)
(* comparison pass than the counting pass read.                            *)
(***************************************************************************)
ThmC25 ==
    IsWorker =>
        \A i \in 1..Len(events) :
            IsProgress(events[i]) => events[i].value \in 0..100

\* A threshold report made after more lines were read than were counted.
WitC25 ==
    /\ kind \in {"dict", "rainbow"} /\ changed
    /\ total > 0 /\ tried_combinations > total
    /\ tried_combinations % LinePeriod = 0
    /\ pc \in {"next", "test"}
    /\ events # <<>> /\ IsProgress(events[Len(events)])
    /\ events[Len(events)].value = 100
(***************************************************************************)
(* C26.  The target of a worker is in lower case from the constructor on   *)
(* and is never modified; every found_match carries a digest equal to that *)
(* target, and under the charset and dictionary searches that digest is    *)
(* the one get_hash computes for the text of the event.                    *)
(***************************************************************************)
ThmC26 ==
    /\ [](IsWorker =>
             /\ target_hash = Lower(target_hash)
             /\ \A i \in 1..Len(MatchEvents) :
                   /\ MatchEvents[i].hashed = target_hash
                   /\ kind \in {"brute", "dict"} =>
                         MatchEvents[i].hashed =
                             get_hash(MatchEvents[i].text, hash_type, custom_hash_function))
    /\ [][target_hash' = target_hash]_vars

\* A match of a search whose target was typed in upper case ("D61").
WitC26 ==
    /\ kind \in {"brute", "dict"} /\ pc = "done"
    /\ target_hash = <<"d", "6", "1">>
    /\ MatchEvents # <<>>
(***************************************************************************)
(* C27.  Every worker whose run() has begun eventually emits               *)
(* finished_task, whether or not stop() is called.                         *)
(***************************************************************************)
ClaimC27 == (IsWorker /\ pc = "count") ~> (FinishedEvents # <<>>)
(***************************************************************************)
(* C29.  In the GUI at most one worker is between its start and the        *)
(* handling of its finished_task: the start button is disabled from the    *)
(* start of a worker until finished_task is handled, a rejected            *)
(* configuration starts no worker and leaves the start button enabled,     *)
(* and a stop click does not enable the start button.                      *)
(***************************************************************************)
IsClick == clicks' = clicks + 1

ThmC29 ==
    /\ [](active \in {0, 1} /\ (active = 1 <=> ~start_enabled))
    /\ [][/\ active' > active => start_enabled /\ ~start_enabled'
          /\ (IsClick /\ last_click' = "rejected") =>
                /\ start_enabled' /\ active' = active
                /\ kind' = kind /\ pc' = pc /\ events' = events
          /\ (IsClick /\ last_click' = "stop") =>
                /\ start_enabled' = start_enabled /\ active' = active
          /\ start_enabled' /\ ~start_enabled =>
                IsClick /\ last_click' = "finished"]_vars

\* A stop click on a worker that has not finished, the last of MaxClicks
\* handlers; the start button stays disabled.
WitC29 ==
    /\ clicks = MaxClicks /\ last_click = "stop"
    /\ active = 1 /\ ~running /\ pc \notin {"done", "raised"}
    /\ ~start_enabled
(***************************************************************************)
(* C30.  For the same algorithm, target and input, a command-line search   *)
(* and the never-cancelled worker of the same kind process the same        *)
(* candidates in the same order and end the same way: each tests the       *)
(* candidates of the input, in order, up to the first one whose digest is  *)
(* the lowercased target, reports that candidate with that digest, or      *)
(* reports no match after the last one.                                    *)
(***************************************************************************)
SearchOf(k) ==
    CASE k \in {"brute", "brute_cli"}     -> "charset"
      [] k \in {"dict", "dict_cli"}       -> "dictionary"
      [] k \in {"rainbow", "rainbow_cli"} -> "rainbow"

\* The words and the entries of the whole file of the comparison pass.
WordsOf(file) ==
    SelectSeq([i \in 1..Len(FileLines(file)) |-> Trimmed(FileLines(file)[i])], IsWord)
EntriesOf(file) ==
    SelectSeq([i \in 1..Len(FileLines(file)) |-> Trimmed(FileLines(file)[i])], HoldsEntry)

\* The input as a sequence of candidates with their digests; it depends on
\* the kind of search, never on whether a worker or a function runs it.
InputSize(search) ==
    CASE search = "charset"    -> SizeOfSpace(Len(char_set), min_length, max_length)
      [] search = "dictionary" -> Len(WordsOf(f))
      [] search = "rainbow"    -> Len(EntriesOf(f))

InputAt(search, k) ==
    CASE search = "charset" ->
           LET c == Candidate(char_set, min_length, max_length, k)
           IN  [text |-> c, hashed |-> get_hash(c, hash_type, custom_hash_function)]
      [] search = "dictionary" ->
           LET w == WordsOf(f)[k]
           IN  [text |-> w, hashed |-> get_hash(w, hash_type, custom_hash_function)]
      [] search = "rainbow" ->
           LET e == EntriesOf(f)[k]
               c == LeastOf(ColonsOf(e))
           IN  [text |-> SubSeq(e, c + 1, Len(e)), hashed |-> Lower(SubSeq(e, 1, c - 1))]

NoMatchReported ==
    IF IsWorker THEN TRUE
    ELSE \E i \in 1..Len(events) : events[i].sig = "print_no_match"

ThmC30 ==
    (pc = "done" /\ stop_at = NoStop) =>
        LET search == SearchOf(kind)
            n == Len(log)
        IN  /\ n <= InputSize(search)
            /\ \A k \in 1..n : log[k] = InputAt(search, k)
            /\ \A k \in 1..(n - 1) : log[k].hashed # Lower(target_hash)
            /\ IF n > 0 /\ log[n].hashed = Lower(target_hash)
               THEN /\ Len(MatchReports) = 1
                    /\ MatchReports[1].text = log[n].text
                    /\ MatchReports[1].hashed = log[n].hashed
               ELSE /\ n = InputSize(search)
                    /\ MatchReports = <<>>
                    /\ NoMatchReported

\* dictionary_cli on the word list "a", "", " b " with the target MD5("b"),
\* an input the dictionary worker is given too.
WitC30 ==
    /\ kind = "dict_cli" /\ pc = "done" /\ f = "DictPw" /\ hash_type = "MD5"
    /\ target_hash = <<"d", "6", "2">>
    /\ Len(log) = 2 /\ MatchReports # <<>>

=============================================================================
